---------------------------- MODULE Spec2Model ----------------------------
(***************************************************************************)
(* A model of torn-territories: the territory registry and TerritoryId,    *)
(* the viewport fitter (bbox_for_path, fit_view_box), the tile stitcher    *)
(* (load_map_segment), the scene built by render_territories, and the      *)
(* callers of the stitcher in torn-map-tool.                               *)
(*                                                                         *)
(* Each subsystem has its own specification over the shared variables:     *)
(*   SpecSegment  load_map_segment called directly with a rectangle        *)
(*   SpecView     bbox_for_path followed by fit_view_box                   *)
(*   SpecId       TerritoryId parsed, displayed and looked up              *)
(*   SpecRender   render_territories, from the scene to the overlay        *)
(*   SpecTool     torn-map-tool's two commands, from the parsed arguments  *)
(***************************************************************************)
EXTENDS Integers, Sequences, FiniteSets, TLC

VARIABLES
    pc,       \* position of the running function
    caller,   \* who called load_map_segment
    padded,   \* whether the edge tiles of the store are full 600x400 images
    seg,      \* the arguments (x, y, w, h) of the running load_map_segment
    cursor,   \* load_map_segment's scan cursor
    image,    \* load_map_segment's destination buffer
    fetched   \* the tile names asked of the embedded store, in order

segVars == <<pc, caller, padded, seg, cursor, image, fetched>>
callVars == <<caller, padded, seg, cursor, image, fetched>>

VARIABLES
    bounds,     \* path.bounds() of the shape, a rectangle of fractions
    factor,     \* the zoom factor given to bbox_for_path
    ar,         \* the aspect ratio given to bbox_for_path
    bbox,       \* the rectangle returned by bbox_for_path, given to fit_view_box
    view_port   \* the rectangle returned by fit_view_box

viewVars == <<bounds, factor, ar, bbox, view_port>>

VARIABLES
    TERRITORY_INFO,  \* the registry generated by the build step
    input,           \* the string handed to from_str or to the deserializer
    origin,          \* the id `input` was written from by Display, or NoId
    result,          \* what the last parse returned
    obtained,        \* the TerritoryId values the user holds
    via              \* the operation that ran last

idVars == <<TERRITORY_INFO, input, origin, result, obtained, via>>

VARIABLES
    fill,        \* render_territories' fill map, as its caller passed it
    stroke,      \* render_territories' stroke map, as its caller passed it
    stroke_left, \* the stroke map after the loop over the fill map
    scale,       \* render_territories' RenderScale
    scene,       \* the shapes appended to the scene's root, in order
    shapes,      \* the size of the rasterized scene
    background   \* the size of the background the scene is laid over

renderVars == <<fill, stroke, stroke_left, scale, scene, shapes, background>>

VARIABLES
    args,            \* the command line of torn-map-tool
    overflow_checks  \* whether the build panics on integer overflow

toolVars == <<args, overflow_checks>>

vars == <<segVars, viewVars, idVars, renderVars, toolVars>>

(***************************************************************************)
(* Program constants.                                                      *)
(***************************************************************************)
MAP_WIDTH == 6256
MAP_HEIGHT == 3648
TILE_WIDTH == 600
TILE_HEIGHT == 400

Min(a, b) == IF a <= b THEN a ELSE b
Max(a, b) == IF a >= b THEN a ELSE b

(***************************************************************************)
(* Bounds of the model.                                                    *)
(***************************************************************************)
MaxSegW == 3      \* widths of the small rectangles are 0..MaxSegW
MaxSegH == 3      \* heights of the small rectangles are 0..MaxSegH

(***************************************************************************)
(* The embedded tile store.  A tile name map_<a>_<b>.tiff is the pair      *)
(* <<a, b>> of the two numbers in it, in the order they are written.       *)
(* The store holds one tile per cell of the 11 x 10 grid; the tiles of the *)
(* last column and of the last row either are cut at the map's edge or are *)
(* full 600x400 images (padded): the source does not say which.            *)
(***************************************************************************)
GridCols == (MAP_WIDTH + TILE_WIDTH - 1) \div TILE_WIDTH
GridRows == (MAP_HEIGHT + TILE_HEIGHT - 1) \div TILE_HEIGHT

MapTiles == (1..GridCols) \X (1..GridRows)

TileDimensions(name, pad) ==
    IF pad THEN <<TILE_WIDTH, TILE_HEIGHT>>
    ELSE <<Min(TILE_WIDTH, MAP_WIDTH - (name[1] - 1) * TILE_WIDTH),
           Min(TILE_HEIGHT, MAP_HEIGHT - (name[2] - 1) * TILE_HEIGHT)>>

\* The pixel (px, py) of tile `name`: every pixel of every tile is distinct.
TilePixel(name, px, py) == <<name[1], name[2], px, py>>

\* A pixel of a fresh GrayImage.
Blank == <<0, 0, 0, 0>>

(***************************************************************************)
(* load_map_segment (lib.rs 500-537).                                      *)
(* The destination buffer is its size and the blits `replace` has made     *)
(* into it, in order; Pixel reads a pixel of it.                           *)
(***************************************************************************)
NewImage(w, h) == [w |-> w, h |-> h, blits |-> << >>]

\* format!("map_{x_tile}_{y_tile}.tiff")
TileNameSwapped(x_tile, y_tile) == <<y_tile, x_tile>>
TileName(x_tile, y_tile) == <<x_tile, y_tile>>

CopyWidthToRightEdge(s, c) == Min((s.x + s.w) - c[1], TILE_WIDTH)
CopyWidth(s, c) == Min((s.x + s.w) - c[1], TILE_WIDTH - (c[1] % TILE_WIDTH))

CopyHeight(s, c) == Min((s.y + s.h) - c[2], TILE_HEIGHT - (c[2] % TILE_HEIGHT))

\* imageops::replace(&mut image, view, dx, dy): the view is copied to (dx, dy),
\* cut to the buffer.
Replace(img, name, x_min, y_min, width, height, dx, dy) ==
    [img EXCEPT !.blits = Append(@,
        [tile |-> name, x_min |-> x_min, y_min |-> y_min,
         dx |-> dx, dy |-> dy,
         width |-> Max(0, Min(width, img.w - dx)),
         height |-> Max(0, Min(height, img.h - dy))])]

AdvanceKeepColumn(s, c, width, height) ==
    IF c[1] + width >= s.x + s.w
    THEN <<c[1], c[2] + height>>
    ELSE <<c[1] + width, c[2]>>
AdvanceTileRow(s, c, width, height) ==
    IF c[1] + width >= s.x + s.w
    THEN <<s.x, c[2] + TILE_HEIGHT>>
    ELSE <<c[1] + width, c[2]>>
Advance(s, c, width, height) ==
    IF c[1] + width >= s.x + s.w
    THEN <<s.x, c[2] + height>>
    ELSE <<c[1] + width, c[2]>>

Covers(b, i, j) ==
    /\ b.dx <= i /\ i < b.dx + b.width
    /\ b.dy <= j /\ j < b.dy + b.height

\* The blits that wrote pixel (i, j) of the buffer.
Writers(img, i, j) == {k \in 1..Len(img.blits) : Covers(img.blits[k], i, j)}

Last(S) == CHOOSE m \in S : \A n \in S : n <= m

Pixel(img, i, j) ==
    IF Writers(img, i, j) = {} THEN Blank
    ELSE LET b == img.blits[Last(Writers(img, i, j))]
         IN TilePixel(b.tile, b.x_min + (i - b.dx), b.y_min + (j - b.dy))

\* let mut image = GrayImage::new(w, h); let mut cursor = (x, y);
\* A negative w or h stands for the u32 value 2^32 + w that a wrapped
\* subtraction of the caller's gave: a buffer of that size is beyond the model.
SegmentEnter ==
    /\ pc = "call"
    /\ IF seg.w < 0 \/ seg.h < 0
       THEN /\ pc' = "oversize"
            /\ UNCHANGED <<image, cursor>>
       ELSE /\ image' = NewImage(seg.w, seg.h)
            /\ cursor' = <<seg.x, seg.y>>
            /\ pc' = "loop"
    /\ fetched' = << >>
    /\ UNCHANGED <<caller, padded, seg>>
    /\ UNCHANGED <<viewVars, idVars, renderVars, toolVars>>

\* One iteration of the while loop.
SegmentStep ==
    /\ pc = "loop"
    /\ cursor[2] < seg.y + seg.h
    /\ LET x_tile == cursor[1] \div TILE_WIDTH + 1
           y_tile == cursor[2] \div TILE_HEIGHT + 1
           x_min == cursor[1] % TILE_WIDTH
           y_min == cursor[2] % TILE_HEIGHT
           width == CopyWidth(seg, cursor)
           height == CopyHeight(seg, cursor)
           name == TileName(x_tile, y_tile)
       IN /\ fetched' = Append(fetched, name)
          /\ IF name \notin MapTiles
             THEN \* MapTiles::get(..).unwrap()
                  /\ pc' = "panic"
                  /\ UNCHANGED <<image, cursor>>
             ELSE IF \/ x_min + width > TileDimensions(name, padded)[1]
                     \/ y_min + height > TileDimensions(name, padded)[2]
             THEN \* tile.view(x_min, y_min, width, height) out of the tile
                  /\ pc' = "panic"
                  /\ UNCHANGED <<image, cursor>>
             ELSE /\ image' = Replace(image, name, x_min, y_min, width, height,
                                      cursor[1] - seg.x, cursor[2] - seg.y)
                  /\ cursor' = Advance(seg, cursor, width, height)
                  /\ pc' = "loop"
    /\ UNCHANGED <<caller, padded, seg>>
    /\ UNCHANGED <<viewVars, idVars, renderVars, toolVars>>

\* The loop condition fails: the buffer is returned.
SegmentReturn ==
    /\ pc = "loop"
    /\ ~(cursor[2] < seg.y + seg.h)
    /\ pc' = "done"
    /\ UNCHANGED <<caller, padded, seg, cursor, image, fetched>>
    /\ UNCHANGED <<viewVars, idVars, renderVars, toolVars>>

(***************************************************************************)
(* Fractions.  The f32 values of the viewport fitter are modelled as exact *)
(* fractions <<n, d>> with d > 0 in lowest terms: the arithmetic below is  *)
(* real arithmetic, without the rounding of f32.                           *)
(***************************************************************************)
Abs(a) == IF a < 0 THEN -a ELSE a

RECURSIVE Gcd(_, _)
Gcd(a, b) == IF b = 0 THEN a ELSE Gcd(b, a % b)

Frac(n, d) ==
    LET g == Gcd(Abs(n), Abs(d))
        sgn == IF d < 0 THEN -1 ELSE 1
    IN <<sgn * (n \div g), sgn * (d \div g)>>

Whole(n) == <<n, 1>>

FAdd(a, b) == Frac(a[1] * b[2] + b[1] * a[2], a[2] * b[2])
FSub(a, b) == Frac(a[1] * b[2] - b[1] * a[2], a[2] * b[2])
FMul(a, b) == Frac(a[1] * b[1], a[2] * b[2])
FDiv(a, b) == Frac(a[1] * b[2], a[2] * b[1])      \* b # 0
FLess(a, b) == a[1] * b[2] < b[1] * a[2]
FLeq(a, b) == a[1] * b[2] <= b[1] * a[2]
FZero(a) == a[1] = 0

\* `v as u32` of an f32: the fraction is cut off toward zero and a negative
\* value gives 0 (the cast saturates; its upper limit 2^32 - 1 is beyond the
\* values of the model).
AsU32(a) == IF a[1] < 0 THEN 0 ELSE a[1] \div a[2]

FRect(x, y, width, height) == [x |-> x, y |-> y, width |-> width, height |-> height]

NoRect == FRect(Whole(0), Whole(0), Whole(0), Whole(0))
NoViewPort == [x |-> 0, y |-> 0, width |-> 0, height |-> 0]

(***************************************************************************)
(* bbox_for_path (lib.rs 316-337).                                         *)
(***************************************************************************)
\* bounds_ar > ar, where bounds_ar = bounds.width() / bounds.height(): a zero
\* height gives +inf (or NaN when the width is zero too, and NaN > ar is false).
IsWider(b, a) ==
    IF FZero(b.height) THEN ~FZero(b.width)
    ELSE FLess(a, FDiv(b.width, b.height))

\* The four values handed to Rect::from_xywh in the branch taken.
BBoxWiderTimesRatio(b, f, a) ==
    LET width == FDiv(b.width, f)
        height == FMul(width, a)
        x == FSub(b.x, FDiv(FMul(width, FSub(Whole(1), f)), Whole(2)))
        y == FSub(b.y, FDiv(FSub(height, b.height), Whole(2)))
    IN FRect(x, y, width, height)
BBoxWider(b, f, a) ==
    LET width == FDiv(b.width, f)
        height == FDiv(width, a)
        x == FSub(b.x, FDiv(FMul(width, FSub(Whole(1), f)), Whole(2)))
        y == FSub(b.y, FDiv(FSub(height, b.height), Whole(2)))
    IN FRect(x, y, width, height)

BBoxTaller(b, f, a) ==
    LET height == FDiv(b.height, f)
        width == FMul(height, a)
        y == FSub(b.y, FDiv(FMul(height, FSub(Whole(1), f)), Whole(2)))
        x == FSub(b.x, FDiv(FSub(width, b.width), Whole(2)))
    IN FRect(x, y, width, height)

\* Whether the branch taken divides by zero, which gives an infinity or a NaN.
DividesByZero(b, f, a) == FZero(f) \/ (IsWider(b, a) /\ FZero(a))

\* Rect::from_xywh(x, y, width, height) is Some: the values are finite and the
\* width and height are not negative.
FromXywhIsSome(r) == ~FLess(r.width, Whole(0)) /\ ~FLess(r.height, Whole(0))

BBoxForPath ==
    /\ pc = "bbox_for_path"
    /\ IF DividesByZero(bounds, factor, ar)
       THEN pc' = "panic" /\ UNCHANGED bbox
       ELSE LET r == IF IsWider(bounds, ar)
                     THEN BBoxWider(bounds, factor, ar)
                     ELSE BBoxTaller(bounds, factor, ar)
            IN IF FromXywhIsSome(r)
               THEN bbox' = r /\ pc' = "fit_view_box"
               ELSE pc' = "panic" /\ UNCHANGED bbox      \* .unwrap()
    /\ UNCHANGED <<bounds, factor, ar, view_port>>
    /\ UNCHANGED <<callVars, idVars, renderVars, toolVars>>

(***************************************************************************)
(* fit_view_box (lib.rs 369-381).                                          *)
(***************************************************************************)
Clamp(v, lo, hi) == IF v < lo THEN lo ELSE IF v > hi THEN hi ELSE v

FitViewBoxTruncate(b) ==
    LET x == AsU32(b.x)
        y == AsU32(b.y)
        width == Min(AsU32(b.width), MAP_WIDTH - Min(x, MAP_WIDTH))
        height == Min(AsU32(b.height), MAP_HEIGHT - Min(y, MAP_HEIGHT))
    IN [x |-> Min(x, MAP_WIDTH), y |-> Min(y, MAP_HEIGHT),
        width |-> width, height |-> height]
FitViewBoxNoWidthClamp(b) ==
    LET width == AsU32(b.width)
        height == Min(AsU32(b.height), MAP_HEIGHT)
        x == Clamp(AsU32(b.x), 0, Max(0, MAP_WIDTH - width))
        y == Clamp(AsU32(b.y), 0, MAP_HEIGHT - height)
    IN [x |-> x, y |-> y, width |-> width, height |-> height]
fit_view_box(b) ==
    LET width == Min(AsU32(b.width), MAP_WIDTH)
        height == Min(AsU32(b.height), MAP_HEIGHT)
        x == Clamp(AsU32(b.x), 0, MAP_WIDTH - width)
        y == Clamp(AsU32(b.y), 0, MAP_HEIGHT - height)
    IN [x |-> x, y |-> y, width |-> width, height |-> height]

FitViewBox ==
    /\ pc = "fit_view_box"
    /\ view_port' = fit_view_box(bbox)
    /\ pc' = "fitted"
    /\ UNCHANGED <<bounds, factor, ar, bbox>>
    /\ UNCHANGED <<callVars, idVars, renderVars, toolVars>>

ViewIdle ==
    /\ bounds = NoRect
    /\ factor = Whole(1)
    /\ ar = Whole(1)
    /\ bbox = NoRect
    /\ view_port = NoViewPort

SegmentIdle ==
    /\ caller = "none"
    /\ padded = FALSE
    /\ seg = [x |-> 0, y |-> 0, w |-> 0, h |-> 0]
    /\ cursor = <<0, 0>>
    /\ image = [w |-> 0, h |-> 0, blits |-> << >>]
    /\ fetched = << >>

(***************************************************************************)
(* Strings and TerritoryId (lib.rs 32-135).  A string is a sequence of     *)
(* characters; as_bytes gives its UTF-8 bytes.  A TerritoryId is its three *)
(* bytes.                                                                  *)
(***************************************************************************)
MaxStrLen == 3    \* the strings parsed have at most MaxStrLen characters

Chars == {"X", "O", "D", "e'"}       \* "e'" is U+00E9, two bytes in UTF-8

Utf8(c) ==
    CASE c = "X" -> <<88>>
      [] c = "O" -> <<79>>
      [] c = "D" -> <<68>>
      [] c = "e'" -> <<195, 169>>

RECURSIVE as_bytes(_)
as_bytes(s) == IF s = << >> THEN << >> ELSE Utf8(Head(s)) \o as_bytes(Tail(s))

is_ascii(s) == \A i \in 1..Len(as_bytes(s)) : as_bytes(s)[i] < 128

Strings == UNION {[1..n -> Chars] : n \in 0..MaxStrLen}

NoId == << >>

Ok(id) == [ok |-> TRUE, id |-> id, err |-> "", len |-> 0]
Err(e, n) == [ok |-> FALSE, id |-> NoId, err |-> e, len |-> n]

contains_key(registry, id) == id \in DOMAIN registry

\* <TerritoryId as FromStr>::from_str (lib.rs 56-75)
FromStrLengthFirst(s, registry) ==
    IF Len(as_bytes(s)) # 3 THEN Err("InvalidLength", Len(as_bytes(s)))
    ELSE IF ~is_ascii(s) THEN Err("InvalidEncoding", 0)
    ELSE IF ~contains_key(registry, as_bytes(s)) THEN Err("DoesNotExist", 0)
    ELSE Ok(as_bytes(s))
FromStrNoLookup(s, registry) ==
    IF ~is_ascii(s) THEN Err("InvalidEncoding", 0)
    ELSE IF Len(as_bytes(s)) # 3 THEN Err("InvalidLength", Len(as_bytes(s)))
    ELSE Ok(as_bytes(s))
from_str(s, registry) ==
    IF ~is_ascii(s) THEN Err("InvalidEncoding", 0)
    ELSE IF Len(as_bytes(s)) # 3 THEN Err("InvalidLength", Len(as_bytes(s)))
    ELSE IF ~contains_key(registry, as_bytes(s)) THEN Err("DoesNotExist", 0)
    ELSE Ok(as_bytes(s))

\* IdVisitor::visit_str (lib.rs 98-120)
visit_str(v, registry) ==
    IF ~is_ascii(v) \/ Len(as_bytes(v)) # 3 THEN Err("invalid_value", 0)
    ELSE IF ~contains_key(registry, as_bytes(v)) THEN Err("invalid_value", 0)
    ELSE Ok(as_bytes(v))

\* The character of an ASCII byte.
Chr(b) == CHOOSE c \in Chars : Utf8(c) = <<b>>

\* <TerritoryId as Display>::fmt (lib.rs 78-82): the three bytes as a string.
\* Serialize (lib.rs 128-135) serializes this string.
ToStringReversed(id) == <<Chr(id[3]), Chr(id[2]), Chr(id[1])>>
to_string(id) == <<Chr(id[1]), Chr(id[2]), Chr(id[3])>>

(***************************************************************************)
(* The registry (build.rs 34-122).  The data set territory_shapes.json is  *)
(* a map from 3-character ASCII codes to a territory's data, whose         *)
(* neighbors are codes of the data set.  The build step turns each code    *)
(* and each neighbor into its bytes.                                       *)
(***************************************************************************)
Codes == {<<"X", "O", "D">>, <<"D", "O", "X">>, <<"O", "X", "O">>}

Adjacent(a, b) ==
    {a, b} \in {{<<"X", "O", "D">>, <<"D", "O", "X">>},
                {<<"D", "O", "X">>, <<"O", "X", "O">>}}

\* The bounds of the path of each territory's shape.
ShapeBounds(k) ==
    CASE k = <<"X", "O", "D">> -> FRect(Whole(50), Whole(50), Whole(100), Whole(100))
      [] k = <<"D", "O", "X">> -> FRect(Whole(6100), Whole(3500), Whole(150), Whole(140))
      [] k = <<"O", "X", "O">> -> FRect(Frac(1181, 2), Whole(395), Whole(25), Frac(25, 2))

DatasetOf(K) ==
    [k \in K |-> [neighbors |-> {n \in K : Adjacent(k, n)}, shape |-> ShapeBounds(k)]]

Datasets == {DatasetOf(K) : K \in SUBSET Codes}

KeyOf(territories, id) == CHOOSE k \in DOMAIN territories : as_bytes(k) = id

Build(territories) ==
    [id \in {as_bytes(k) : k \in DOMAIN territories} |->
        [neighbors |-> {as_bytes(n) : n \in territories[KeyOf(territories, id)].neighbors},
         shape |-> territories[KeyOf(territories, id)].shape]]

NoParse ==
    /\ input = << >>
    /\ origin = NoId
    /\ result = Err("", 0)
    /\ obtained = {}
    /\ via = "none"

IdIdle ==
    /\ TERRITORY_INFO = Build(DatasetOf({}))
    /\ input = << >>
    /\ origin = NoId
    /\ result = Err("", 0)
    /\ obtained = {}
    /\ via = "none"

\* The user writes a string.
UserInput ==
    /\ pc \in {"start", "parsed"}
    /\ \E s \in Strings : input' = s
    /\ origin' = NoId
    /\ via' = "user"
    /\ result' = Err("", 0)
    /\ pc' = "text"
    /\ UNCHANGED <<TERRITORY_INFO, obtained>>
    /\ UNCHANGED <<callVars, viewVars, renderVars, toolVars>>

\* id.to_string(), or the string serde serializes.
Display ==
    /\ pc \in {"start", "parsed"}
    /\ \E id \in obtained :
        /\ input' = to_string(id)
        /\ origin' = id
    /\ via' = "to_string"
    /\ result' = Err("", 0)
    /\ pc' = "text"
    /\ UNCHANGED <<TERRITORY_INFO, obtained>>
    /\ UNCHANGED <<callVars, viewVars, renderVars, toolVars>>

\* input.parse::<TerritoryId>()
FromStr ==
    /\ pc = "text"
    /\ result' = from_str(input, TERRITORY_INFO)
    /\ obtained' = IF result'.ok THEN obtained \cup {result'.id} ELSE obtained
    /\ via' = "from_str"
    /\ pc' = "parsed"
    /\ UNCHANGED <<TERRITORY_INFO, input, origin>>
    /\ UNCHANGED <<callVars, viewVars, renderVars, toolVars>>

\* TerritoryId::deserialize of the string `input`
Deserialize ==
    /\ pc = "text"
    /\ result' = visit_str(input, TERRITORY_INFO)
    /\ obtained' = IF result'.ok THEN obtained \cup {result'.id} ELSE obtained
    /\ via' = "deserialize"
    /\ pc' = "parsed"
    /\ UNCHANGED <<TERRITORY_INFO, input, origin>>
    /\ UNCHANGED <<callVars, viewVars, renderVars, toolVars>>

\* id.info().neighbors (lib.rs 247-259): the lookup, unwrapped, and the ids
\* of the neighbors list.
Info ==
    /\ pc \in {"start", "parsed"}
    /\ \E id \in obtained :
        IF contains_key(TERRITORY_INFO, id)
        THEN /\ obtained' = obtained \cup TERRITORY_INFO[id].neighbors
             /\ pc' = "parsed"
        ELSE /\ pc' = "panic"
             /\ UNCHANGED obtained
    /\ via' = "info"
    /\ UNCHANGED <<TERRITORY_INFO, input, origin, result>>
    /\ UNCHANGED <<callVars, viewVars, renderVars, toolVars>>

(***************************************************************************)
(* render_territories (lib.rs 395-498).                                    *)
(* A map is a function from ids to render instructions; a shape of the     *)
(* scene is its id, its fill and its stroke ("None" when it has none).     *)
(***************************************************************************)
Shape(id, f, st) == [id |-> id, fill |-> f, stroke |-> st]

\* stroke.remove(id): the entry removed, and the map without it.
TakeKeep(m, id) == [inst |-> IF id \in DOMAIN m THEN m[id] ELSE "None", rest |-> m]
Take(m, id) ==
    [inst |-> IF id \in DOMAIN m THEN m[id] ELSE "None",
     rest |-> [k \in DOMAIN m \ {id} |-> m[k]]]

\* The loop over the fill map (lib.rs 412-432), in the order `order`.
RECURSIVE FillLoop(_, _, _, _)
FillLoop(order, fillMap, strokeMap, root) ==
    IF order = << >> THEN [root |-> root, stroke |-> strokeMap]
    ELSE LET id == Head(order)
             border == Take(strokeMap, id)
         IN FillLoop(Tail(order), fillMap, border.rest,
                     Append(root, Shape(id, fillMap[id], border.inst)))

\* The loop over what is left of the stroke map (lib.rs 434-448).
RECURSIVE StrokeLoopUnderneath(_, _, _)
StrokeLoopUnderneath(order, strokeMap, root) ==
    IF order = << >> THEN root
    ELSE StrokeLoopUnderneath(Tail(order), strokeMap,
             <<Shape(Head(order), "None", strokeMap[Head(order)])>> \o root)

RECURSIVE StrokeLoop(_, _, _)
StrokeLoop(order, strokeMap, root) ==
    IF order = << >> THEN root
    ELSE StrokeLoop(Tail(order), strokeMap,
                    Append(root, Shape(Head(order), "None", strokeMap[Head(order)])))

\* The orders a HashMap with the keys S may be iterated in.
Orders(S) == {o \in [1..Cardinality(S) -> S] : \A i, j \in DOMAIN o : i # j => o[i] # o[j]}

RenderBuildScene ==
    /\ pc = "render_territories"
    /\ \E fillOrder \in Orders(DOMAIN fill) :
         LET filled == FillLoop(fillOrder, fill, stroke, << >>)
         IN /\ stroke_left' = filled.stroke
            /\ \E strokeOrder \in Orders(DOMAIN filled.stroke) :
                 scene' = StrokeLoop(strokeOrder, filled.stroke, filled.root)
    /\ pc' = "rasterize"
    /\ UNCHANGED <<fill, stroke, scale, shapes, background>>
    /\ UNCHANGED <<callVars, viewVars, idVars, toolVars>>

ScaleFactorHalf(sc) == IF sc = "X1" THEN 1 ELSE 2
ScaleFactor(sc) == IF sc = "X1" THEN 1 ELSE 4

\* lib.rs 450-479: the scene is rasterized at the scaled size.  Size::from_wh,
\* NonZeroRect::from_xywh and Pixmap::new are None for an empty size.
RenderRasterize ==
    /\ pc = "rasterize"
    /\ LET scaled_width == view_port.width \div ScaleFactor(scale)
           scaled_height == view_port.height \div ScaleFactor(scale)
       IN IF scaled_width = 0 \/ scaled_height = 0
          THEN pc' = "panic" /\ UNCHANGED shapes
          ELSE /\ shapes' = [w |-> scaled_width, h |-> scaled_height]
               /\ pc' = "background"
    /\ UNCHANGED <<fill, stroke, stroke_left, scale, scene, background>>
    /\ UNCHANGED <<callVars, viewVars, idVars, toolVars>>

\* load_map_x4(): the size of the whole map's tile, a quarter of the map's.
MapX4 == [w |-> MAP_WIDTH \div 4, h |-> MAP_HEIGHT \div 4]

\* imageops::crop(image, x, y, width, height).to_image(): the size of the
\* region, which crop cuts to the image.
Crop(img, x, y, width, height) ==
    [w |-> Min(width, img.w - Min(x, img.w)),
     h |-> Min(height, img.h - Min(y, img.h))]

\* lib.rs 480-493: the background is loaded: at X1 by load_map_segment.
RenderBackground ==
    /\ pc = "background"
    /\ IF scale = "X1"
       THEN /\ seg' = [x |-> view_port.x, y |-> view_port.y,
                       w |-> view_port.width, h |-> view_port.height]
            /\ caller' = "render_territories"
            /\ pc' = "call"
            /\ UNCHANGED background
       ELSE /\ background' = Crop(MapX4, view_port.x \div 4, view_port.y \div 4,
                                  shapes.w, shapes.h)
            /\ pc' = "overlay"
            /\ UNCHANGED <<seg, caller>>
    /\ UNCHANGED <<padded, cursor, image, fetched>>
    /\ UNCHANGED <<fill, stroke, stroke_left, scale, scene, shapes>>
    /\ UNCHANGED <<viewVars, idVars, toolVars>>

\* load_map_segment(..).convert() has returned to render_territories.
RenderLoaded ==
    /\ pc = "done"
    /\ caller = "render_territories"
    /\ background' = [w |-> image.w, h |-> image.h]
    /\ pc' = "overlay"
    /\ UNCHANGED <<fill, stroke, stroke_left, scale, scene, shapes>>
    /\ UNCHANGED <<callVars, viewVars, idVars, toolVars>>

\* overlay(&mut background, &shapes, 0, 0); background
RenderOverlay ==
    /\ pc = "overlay"
    /\ pc' = "rendered"
    /\ UNCHANGED renderVars
    /\ UNCHANGED <<callVars, viewVars, idVars, toolVars>>

NoMap == << >>

RenderIdle ==
    /\ fill = NoMap
    /\ stroke = NoMap
    /\ stroke_left = NoMap
    /\ scale = "X1"
    /\ scene = << >>
    /\ shapes = [w |-> 0, h |-> 0]
    /\ background = [w |-> 0, h |-> 0]

(***************************************************************************)
(* torn-map-tool (main.rs).                                                *)
(***************************************************************************)
NoArgs == [cmd |-> "none"]

ToolIdle ==
    /\ args = NoArgs
    /\ overflow_checks = TRUE

\* The value parsers of MapSegmentArgs (main.rs 30-69): each number is in
\* range(0..MAP_WIDTH) or range(0..MAP_HEIGHT), the upper end excluded.
InRange(v, end) == 0 <= v /\ v < end

Y2RangeEnd == MAP_WIDTH

ArgsAccepted(a) ==
    a.cmd = "map-segment" =>
        /\ InRange(a.x_position, MAP_WIDTH)
        /\ InRange(a.y_position, MAP_HEIGHT)
        /\ InRange(a.x2_spec.value, MAP_WIDTH)
        /\ InRange(a.y2_spec.value, Y2RangeEnd)

\* Cli::parse()
ToolParse ==
    /\ pc = "parse"
    /\ pc' = IF ArgsAccepted(args) THEN "main" ELSE "usage_error"
    /\ UNCHANGED <<callVars, viewVars, idVars, renderVars, toolVars>>

\* a - b in u32: a panic in a build that checks overflow; otherwise the
\* difference wraps to 2^32 + (a - b), for which the negative a - b stands.
SubOverflows(a, b) == a < b

\* load_map_segment of the tool (main.rs 138-151), up to its call of the
\* library's load_map_segment.
ToolMapSegment ==
    /\ pc = "main"
    /\ args.cmd = "map-segment"
    /\ LET xOver == args.x2_spec.kind = "x2_position"
                      /\ SubOverflows(args.x2_spec.value, args.x_position)
           yOver == args.y2_spec.kind = "y2_position"
                      /\ SubOverflows(args.y2_spec.value, args.y_position)
           w == IF args.x2_spec.kind = "width" THEN args.x2_spec.value
                ELSE args.x2_spec.value - args.x_position
           h == IF args.y2_spec.kind = "height" THEN args.y2_spec.value
                ELSE args.y2_spec.value - args.y_position
       IN IF (xOver \/ yOver) /\ overflow_checks
          THEN pc' = "panic" /\ UNCHANGED <<seg, caller>>
          ELSE /\ seg' = [x |-> args.x_position, y |-> args.y_position,
                          w |-> w, h |-> h]
               /\ caller' = "map-segment"
               /\ pc' = "call"
    /\ UNCHANGED <<padded, cursor, image, fetched>>
    /\ UNCHANGED <<viewVars, idVars, renderVars, toolVars>>

\* load_territory_view (main.rs 153-156): the path of the territory named.
ToolTerritoryView ==
    /\ pc = "main"
    /\ args.cmd = "territory-view"
    /\ IF from_str(args.territory, TERRITORY_INFO).ok
       THEN /\ bounds' = TERRITORY_INFO[as_bytes(args.territory)].shape
            /\ factor' = args.factor
            /\ ar' = args.aspect_ratio
            /\ caller' = "territory-view"
            /\ pc' = "bbox_for_path"
       ELSE /\ pc' = "panic"      \* "Territory with id '..' does not exist!"
            /\ UNCHANGED <<bounds, factor, ar, caller>>
    /\ UNCHANGED <<bbox, view_port>>
    /\ UNCHANGED <<padded, seg, cursor, image, fetched>>
    /\ UNCHANGED <<idVars, renderVars, toolVars>>

\* main.rs 158-166: load_map_segment of the fitted box.
ToolTerritoryLoad ==
    /\ pc = "fitted"
    /\ caller = "territory-view"
    /\ seg' = [x |-> view_port.x, y |-> view_port.y,
               w |-> view_port.width, h |-> view_port.height]
    /\ pc' = "call"
    /\ UNCHANGED <<caller, padded, cursor, image, fetched>>
    /\ UNCHANGED <<viewVars, idVars, renderVars, toolVars>>

\* main.rs 168-178: render_territories of the fitted box, the territory
\* filled, no border, at full resolution.
ToolTerritoryRender ==
    /\ pc = "done"
    /\ caller = "territory-view"
    /\ fill' = [id \in {as_bytes(args.territory)} |-> "red"]
    /\ stroke' = NoMap
    /\ scale' = "X1"
    /\ pc' = "render_territories"
    /\ UNCHANGED <<stroke_left, scene, shapes, background>>
    /\ UNCHANGED <<callVars, viewVars, idVars, toolVars>>

\* main.rs 180-216: the image is written.
ToolExit ==
    /\ \/ pc = "done" /\ caller = "map-segment"
       \/ pc = "rendered" /\ args.cmd = "territory-view"
    /\ pc' = "exit"
    /\ UNCHANGED <<callVars, viewVars, idVars, renderVars, toolVars>>

(***************************************************************************)
(* SpecSegment: load_map_segment called with a rectangle: small ones at    *)
(* and around the tile boundaries and the map's edges (some of them beyond *)
(* the map), one whole tile, and two that span three tiles.                *)
(***************************************************************************)
SegXs == {0, TILE_WIDTH - 2, TILE_WIDTH, 2 * TILE_WIDTH - 1,
          MAP_WIDTH - 2, MAP_WIDTH}
SegYs == {0, TILE_HEIGHT - 2, TILE_HEIGHT, 2 * TILE_HEIGHT - 1,
          MAP_HEIGHT - 2, MAP_HEIGHT}

Rect(x, y, w, h) == [x |-> x, y |-> y, w |-> w, h |-> h]

WholeTile == Rect(0, 0, TILE_WIDTH, TILE_HEIGHT)

LargeRects ==
    {WholeTile,
     Rect(TILE_WIDTH - 1, TILE_HEIGHT - 1, TILE_WIDTH + 2, 2),
     Rect(TILE_WIDTH - 1, TILE_HEIGHT - 1, 2, TILE_HEIGHT + 2),
     Rect(MAP_WIDTH - TILE_WIDTH, MAP_HEIGHT - 2, TILE_WIDTH, 2)}

SegRects ==
    {Rect(x, y, w, h) : x \in SegXs, y \in SegYs, w \in 0..MaxSegW, h \in 0..MaxSegH}
        \cup LargeRects

InMap(s) ==
    /\ 0 <= s.x /\ 0 <= s.y /\ 0 <= s.w /\ 0 <= s.h
    /\ s.x + s.w <= MAP_WIDTH
    /\ s.y + s.h <= MAP_HEIGHT

InitSegment ==
    /\ pc = "call"
    /\ caller = "lib"
    /\ padded \in BOOLEAN
    /\ seg \in SegRects
    /\ cursor = <<0, 0>>
    /\ image = NewImage(0, 0)
    /\ fetched = << >>
    /\ ViewIdle
    /\ IdIdle
    /\ RenderIdle
    /\ ToolIdle

NextSegment == SegmentEnter \/ SegmentStep \/ SegmentReturn

SpecSegment == InitSegment /\ [][NextSegment]_vars

(***************************************************************************)
(* C8 as stated: every tile fetched is named map_<row>_<col>.tiff, with    *)
(* row = cursor.y / 400 + 1 and col = cursor.x / 600 + 1.                  *)
(***************************************************************************)
Fetches == pc = "loop" /\ Len(fetched') = Len(fetched) + 1

C8_NamedRowCol ==
    [][Fetches =>
        fetched'[Len(fetched')] = <<cursor[2] \div TILE_HEIGHT + 1,
                                    cursor[1] \div TILE_WIDTH + 1>>]_vars

(***************************************************************************)
(* C8 as amended: every tile fetched is named map_<col>_<row>.tiff, with   *)
(* col = cursor.x / 600 + 1 and row = cursor.y / 400 + 1.                  *)
(***************************************************************************)
C8_NamedColRow ==
    [][Fetches =>
        fetched'[Len(fetched')] = <<cursor[1] \div TILE_WIDTH + 1,
                                    cursor[2] \div TILE_HEIGHT + 1>>]_vars

\* A tile whose column and row differ has been fetched.
C8_Witness ==
    /\ Len(fetched) > 0
    /\ fetched[1][1] # fetched[1][2]
    /\ fetched[1] \in MapTiles

(***************************************************************************)
(* C1: for every rectangle inside the map load_map_segment returns a       *)
(* w x h buffer whose pixel (i, j) is the virtual map's pixel at           *)
(* (x + i, y + j), each pixel written by exactly one blit; the rectangle   *)
(* (0, 0, 600, 400) is one blit of the whole of tile <<1, 1>>.             *)
(***************************************************************************)
\* The virtual map: the tiles laid out on the grid, column by row.
VirtualMap(gx, gy) ==
    TilePixel(<<gx \div TILE_WIDTH + 1, gy \div TILE_HEIGHT + 1>>,
              gx % TILE_WIDTH, gy % TILE_HEIGHT)

C1_SegmentIsVirtualMap ==
    InMap(seg) =>
        /\ pc # "panic"
        /\ pc = "done" =>
            /\ image.w = seg.w /\ image.h = seg.h
            /\ \A i \in 0..(seg.w - 1), j \in 0..(seg.h - 1) :
                /\ Pixel(image, i, j) = VirtualMap(seg.x + i, seg.y + j)
                /\ Cardinality(Writers(image, i, j)) = 1
            /\ seg = WholeTile =>
                image.blits = <<[tile |-> <<1, 1>>, x_min |-> 0, y_min |-> 0,
                                 dx |-> 0, dy |-> 0,
                                 width |-> TILE_WIDTH, height |-> TILE_HEIGHT]>>

\* A rectangle over a four-tile corner has been stitched from its four tiles.
C1_Witness ==
    /\ pc = "done"
    /\ InMap(seg)
    /\ seg.x < TILE_WIDTH /\ seg.x + seg.w > TILE_WIDTH
    /\ seg.y < TILE_HEIGHT /\ seg.y + seg.h > TILE_HEIGHT
    /\ Len(image.blits) = 4

\* The function runs to its end: a started call keeps taking steps.
SpecSegmentFair == SpecSegment /\ WF_vars(NextSegment)

(***************************************************************************)
(* C11: for every rectangle inside the map, w = 0 and h = 0 included, the  *)
(* scan loop ends; each iteration either moves the cursor right by a       *)
(* positive copied width, or wraps it to the rectangle's left edge and     *)
(* moves it down by a positive copied height; the loop ends with the       *)
(* cursor's y equal to y + h; and when w > 0 and h > 0 the tiles fetched   *)
(* are the grid tiles the rectangle intersects, each fetched once.         *)
(***************************************************************************)
\* The grid tiles a rectangle with w > 0 and h > 0 intersects.
TilesIntersected(s) ==
    {t \in MapTiles :
        /\ (t[1] - 1) * TILE_WIDTH < s.x + s.w
        /\ s.x < t[1] * TILE_WIDTH
        /\ (t[2] - 1) * TILE_HEIGHT < s.y + s.h
        /\ s.y < t[2] * TILE_HEIGHT}

Iterates == pc = "loop" /\ pc' = "loop"

MovesRightOrWraps ==
    \/ /\ cursor'[1] > cursor[1]
       /\ cursor'[1] - cursor[1] = CopyWidth(seg, cursor)
       /\ cursor'[2] = cursor[2]
    \/ /\ cursor'[1] = seg.x
       /\ cursor'[2] > cursor[2]
       /\ cursor'[2] - cursor[2] = CopyHeight(seg, cursor)

EndsAtBottom ==
    (InMap(seg) /\ pc = "done") =>
        /\ cursor[2] = seg.y + seg.h
        /\ (seg.w > 0 /\ seg.h > 0) =>
            /\ Len(fetched) = Cardinality(TilesIntersected(seg))
            /\ {fetched[k] : k \in 1..Len(fetched)} = TilesIntersected(seg)

C11_ScanTerminates ==
    /\ [][(InMap(seg) /\ Iterates) => MovesRightOrWraps]_vars
    /\ []EndsAtBottom
    /\ (InMap(seg) => <>(pc = "done"))

\* A rectangle of width 0 that spans two tile rows has been scanned to its end.
C11_Witness ==
    /\ pc = "done"
    /\ InMap(seg)
    /\ seg.w = 0
    /\ Len(fetched) = 2

(***************************************************************************)
(* C12: for every rectangle inside the map, every iteration addresses a    *)
(* tile of the grid (column 1..11, row 1..10); the sub-region copied lies  *)
(* inside the tile's cell (offset + extent <= 600 and <= 400), not beyond  *)
(* the map's right or bottom edge, and inside the destination buffer; no   *)
(* iteration fails.                                                        *)
(***************************************************************************)
CopyInsideTileAndBuffer ==
    LET x_tile == cursor[1] \div TILE_WIDTH + 1
        y_tile == cursor[2] \div TILE_HEIGHT + 1
        x_min == cursor[1] % TILE_WIDTH
        y_min == cursor[2] % TILE_HEIGHT
        width == CopyWidth(seg, cursor)
        height == CopyHeight(seg, cursor)
    IN /\ fetched'[Len(fetched')] \in (1..11) \X (1..10)
       /\ fetched'[Len(fetched')] \in MapTiles
       /\ width >= 0 /\ height >= 0
       /\ x_min + width <= TILE_WIDTH
       /\ y_min + height <= TILE_HEIGHT
       /\ (x_tile - 1) * TILE_WIDTH + x_min + width <= MAP_WIDTH
       /\ (y_tile - 1) * TILE_HEIGHT + y_min + height <= MAP_HEIGHT
       /\ 0 <= cursor[1] - seg.x
       /\ 0 <= cursor[2] - seg.y
       /\ (cursor[1] - seg.x) + width <= image.w
       /\ (cursor[2] - seg.y) + height <= image.h
       /\ pc' # "panic"

C12_NoMissingTileNoOutOfBounds ==
    [][(InMap(seg) /\ Fetches) => CopyInsideTileAndBuffer]_vars

\* The tile of the last column and the last row, cut at the map's edges, has
\* been copied from up to the map's corner.
C12_Witness ==
    /\ pc = "done"
    /\ InMap(seg)
    /\ seg.x + seg.w = MAP_WIDTH /\ seg.y + seg.h = MAP_HEIGHT
    /\ Len(fetched) = 1
    /\ fetched[1] = <<GridCols, GridRows>>
    /\ image.blits[1].width > 0 /\ image.blits[1].height > 0

(***************************************************************************)
(* SpecView: the viewport fitter.  Either bbox_for_path is called with the *)
(* bounds of a path, a factor and an aspect ratio and its rectangle is     *)
(* handed to fit_view_box, or fit_view_box is called with a rectangle of   *)
(* its caller's.                                                           *)
(***************************************************************************)
FitDen == 2       \* the fractional inputs are multiples of 1 / FitDen

FitXs == {Frac(n, FitDen) : n \in {-20, -1, 0, 1, 100, 101, 2 * (MAP_WIDTH - 100),
                                   2 * (MAP_WIDTH - 56), 2 * MAP_WIDTH, 14000}}
FitYs == {Frac(n, FitDen) : n \in {-20, -1, 0, 1, 100, 101, 2 * (MAP_HEIGHT - 100),
                                   2 * (MAP_HEIGHT - 48), 2 * MAP_HEIGHT, 14000}}
FitWidths == {Frac(n, FitDen) : n \in {0, 1, 200, 201, 2 * MAP_WIDTH, 14000}}
FitHeights == {Frac(n, FitDen) : n \in {0, 1, 200, 201, 2 * MAP_HEIGHT, 14000}}

PathXs == {Whole(0), Whole(50), Frac(101, FitDen), Whole(MAP_WIDTH - 56)}
PathYs == {Whole(0), Whole(50), Whole(MAP_HEIGHT - 48)}
PathWidths == {Whole(0), Whole(1), Whole(25), Whole(100), Frac(601, FitDen)}
PathHeights == {Whole(0), Whole(1), Whole(25), Whole(100), Frac(601, FitDen)}
Factors == {Whole(-1), Whole(0), Frac(1, 2), Frac(3, 4), Whole(1), Whole(2)}
AspectRatios == {Whole(0), Frac(1, 2), Whole(1), Frac(4, 3), Whole(2)}

InitView ==
    /\ SegmentIdle
    /\ IdIdle
    /\ RenderIdle
    /\ ToolIdle
    /\ view_port = NoViewPort
    /\ \/ /\ pc = "bbox_for_path"
          /\ bounds \in {FRect(x, y, w, h) : x \in PathXs, y \in PathYs,
                                            w \in PathWidths, h \in PathHeights}
          /\ factor \in Factors
          /\ ar \in AspectRatios
          /\ bbox = NoRect
       \/ /\ pc = "fit_view_box"
          /\ bounds = NoRect
          /\ factor = Whole(1)
          /\ ar = Whole(1)
          /\ bbox \in {FRect(x, y, w, h) : x \in FitXs, y \in FitYs,
                                          w \in FitWidths, h \in FitHeights}

NextView == BBoxForPath \/ FitViewBox

SpecView == InitView /\ [][NextView]_vars

IsWhole(a) == a[2] = 1

(***************************************************************************)
(* C3: the rectangle returned by fit_view_box lies inside the map, and its *)
(* width and height are the input's, cut to whole pixels and clamped to    *)
(* the map: never larger than the input, never larger than the map.        *)
(***************************************************************************)
\* v is the fraction a, cut to a whole number and clamped to limit.
IsClamped(v, a, limit) ==
    /\ 0 <= v /\ v <= limit
    /\ FLeq(Whole(v), a)
    /\ v = limit \/ FLess(a, Whole(v + 1))

C3_FittedInsideMap ==
    pc = "fitted" =>
        /\ 0 <= view_port.x /\ 0 <= view_port.y
        /\ view_port.x + view_port.width <= MAP_WIDTH
        /\ view_port.y + view_port.height <= MAP_HEIGHT
        /\ IsClamped(view_port.width, bbox.width, MAP_WIDTH)
        /\ IsClamped(view_port.height, bbox.height, MAP_HEIGHT)

\* A rectangle left of the map and wider than it has been fitted.
C3_Witness ==
    /\ pc = "fitted"
    /\ FLess(bbox.x, Whole(0))
    /\ FLess(Whole(MAP_WIDTH), bbox.width)
    /\ view_port.width = MAP_WIDTH

(***************************************************************************)
(* C9: fit_view_box slides and does not truncate: the returned x is the    *)
(* input x (cut to a whole pixel) clamped to [0, MAP_WIDTH - width], and   *)
(* likewise y: a negative x gives 0, a rectangle overrunning the right or  *)
(* bottom edge is moved inward with its size kept, and a rectangle of      *)
(* whole coordinates inside the map is returned unchanged.                 *)
(***************************************************************************)
\* v is the fraction a, cut to a whole number and clamped to [0, hi].
IsSlid(v, a, hi) ==
    IF FLess(a, Whole(0)) THEN v = 0
    ELSE IF FLeq(Whole(hi), a) THEN v = hi
    ELSE FLeq(Whole(v), a) /\ FLess(a, Whole(v + 1))

C9_SlidesNotTruncates ==
    pc = "fitted" =>
        /\ IsSlid(view_port.x, bbox.x, MAP_WIDTH - view_port.width)
        /\ IsSlid(view_port.y, bbox.y, MAP_HEIGHT - view_port.height)
        /\ FLeq(bbox.width, Whole(MAP_WIDTH)) =>
              /\ FLeq(Whole(view_port.width), bbox.width)
              /\ FLess(bbox.width, Whole(view_port.width + 1))
        /\ FLeq(bbox.height, Whole(MAP_HEIGHT)) =>
              /\ FLeq(Whole(view_port.height), bbox.height)
              /\ FLess(bbox.height, Whole(view_port.height + 1))
        /\ ( /\ IsWhole(bbox.x) /\ IsWhole(bbox.y)
             /\ IsWhole(bbox.width) /\ IsWhole(bbox.height)
             /\ bbox.x[1] >= 0 /\ bbox.y[1] >= 0
             /\ bbox.x[1] + bbox.width[1] <= MAP_WIDTH
             /\ bbox.y[1] + bbox.height[1] <= MAP_HEIGHT )
           => view_port = [x |-> bbox.x[1], y |-> bbox.y[1],
                           width |-> bbox.width[1], height |-> bbox.height[1]]

\* A rectangle overrunning the right edge has been moved inward, its size kept.
C9_Witness ==
    /\ pc = "fitted"
    /\ bbox.width = Whole(100)
    /\ bbox.x = Whole(MAP_WIDTH - 56)
    /\ view_port.width = 100
    /\ view_port.x = MAP_WIDTH - 100

(***************************************************************************)
(* C7 as stated: for every bounding box of positive width and height,      *)
(* every positive aspect ratio and every positive factor, the rectangle of *)
(* bbox_for_path has width / height equal to the aspect ratio and at least *)
(* the shape's extent in the dimension not derived from the aspect ratio.  *)
(***************************************************************************)
Positive(a) == a[1] > 0

KeepsRatioAndExtent ==
    /\ bbox.width = FMul(bbox.height, ar)
    /\ IsWider(bounds, ar) => FLeq(bounds.width, bbox.width)
    /\ ~IsWider(bounds, ar) => FLeq(bounds.height, bbox.height)

C7_AnyPositiveFactor ==
    ( /\ pc = "fit_view_box"
      /\ Positive(bounds.width) /\ Positive(bounds.height)
      /\ Positive(ar) /\ Positive(factor) )
    => KeepsRatioAndExtent

(***************************************************************************)
(* C7 as amended: the same for every factor with 0 < factor <= 1.          *)
(***************************************************************************)
C7_FactorAtMostOne ==
    ( /\ pc = "fit_view_box"
      /\ Positive(bounds.width) /\ Positive(bounds.height)
      /\ Positive(ar) /\ Positive(factor) /\ FLeq(factor, Whole(1)) )
    => KeepsRatioAndExtent

\* A zoomed-out rectangle has been derived in the wider-than-target branch.
C7_Witness ==
    /\ pc = "fit_view_box"
    /\ Positive(bounds.width) /\ Positive(bounds.height)
    /\ Positive(ar) /\ Positive(factor) /\ FLess(factor, Whole(1))
    /\ IsWider(bounds, ar)
    /\ FLess(bounds.width, bbox.width)

(***************************************************************************)
(* C15 as stated: for 0 < factor <= 1 and a path whose rectangle from      *)
(* bbox_for_path lies inside the map, the viewport                         *)
(* fit_view_box(bbox_for_path(path, factor, aspect_ratio)) contains the    *)
(* bounding box of the path: viewport.x <= bx, viewport.y <= by,           *)
(* viewport.x + viewport.width >= bx + bw and                              *)
(* viewport.y + viewport.height >= by + bh, fractional coordinates         *)
(* included.                                                               *)
(***************************************************************************)
BBoxInMap ==
    /\ FLeq(Whole(0), bbox.x) /\ FLeq(Whole(0), bbox.y)
    /\ FLeq(FAdd(bbox.x, bbox.width), Whole(MAP_WIDTH))
    /\ FLeq(FAdd(bbox.y, bbox.height), Whole(MAP_HEIGHT))

C15_ViewportContainsPath ==
    ( /\ pc = "fitted"
      /\ Positive(bounds.width) /\ Positive(bounds.height)
      /\ Positive(ar) /\ Positive(factor) /\ FLeq(factor, Whole(1))
      /\ BBoxInMap )
    => /\ FLeq(Whole(view_port.x), bounds.x)
       /\ FLeq(Whole(view_port.y), bounds.y)
       /\ FLeq(FAdd(bounds.x, bounds.width),
               Whole(view_port.x + view_port.width))
       /\ FLeq(FAdd(bounds.y, bounds.height),
               Whole(view_port.y + view_port.height))

(***************************************************************************)
(* SpecId: a registry built from a data set; the user parses and           *)
(* deserializes strings, writes ids back as strings and reads the          *)
(* neighbors of the ids held.                                              *)
(***************************************************************************)
InitId ==
    /\ pc = "start"
    /\ SegmentIdle
    /\ ViewIdle
    /\ RenderIdle
    /\ ToolIdle
    /\ TERRITORY_INFO \in {Build(d) : d \in Datasets}
    /\ input = << >>
    /\ origin = NoId
    /\ result = Err("", 0)
    /\ obtained = {}
    /\ via = "none"

NextId == UserInput \/ Display \/ FromStr \/ Deserialize \/ Info

SpecId == InitId /\ [][NextId]_vars

XOD == <<88, 79, 68>>

(***************************************************************************)
(* C4 as stated: from_str succeeds for every 3-character code that is a    *)
(* key of the registry, fails with DoesNotExist for every other            *)
(* 3-character string, with InvalidLength for every string of length other *)
(* than 3 and with InvalidEncoding for every string with non-ASCII bytes.  *)
(***************************************************************************)
Parsed == pc = "parsed" /\ via = "from_str"

C4_AsStated ==
    Parsed =>
        /\ (Len(input) = 3 /\ contains_key(TERRITORY_INFO, as_bytes(input)))
              => result = Ok(as_bytes(input))
        /\ (Len(input) = 3 /\ ~contains_key(TERRITORY_INFO, as_bytes(input)))
              => result.err = "DoesNotExist"
        /\ Len(as_bytes(input)) # 3 => result.err = "InvalidLength"
        /\ ~is_ascii(input) => result.err = "InvalidEncoding"

(***************************************************************************)
(* C4 as amended: a string with non-ASCII bytes fails with                 *)
(* InvalidEncoding whatever its length; an ASCII string of length other    *)
(* than 3 fails with InvalidLength (of that length); a 3-character ASCII   *)
(* string succeeds when it is a key of the registry and fails with         *)
(* DoesNotExist otherwise.  The first two do not depend on the registry.   *)
(***************************************************************************)
C4_EncodingBeforeLength ==
    Parsed =>
        /\ ~is_ascii(input) => result = Err("InvalidEncoding", 0)
        /\ (is_ascii(input) /\ Len(input) # 3)
              => result = Err("InvalidLength", Len(input))
        /\ (is_ascii(input) /\ Len(input) = 3
              /\ as_bytes(input) \in DOMAIN TERRITORY_INFO)
              => result = Ok(as_bytes(input))
        /\ (is_ascii(input) /\ Len(input) = 3
              /\ as_bytes(input) \notin DOMAIN TERRITORY_INFO)
              => result = Err("DoesNotExist", 0)

\* A non-ASCII string of two bytes has been refused for its encoding, with
\* "XOD" in the registry.
C4_Witness ==
    /\ Parsed
    /\ input = <<"e'">>
    /\ result.err = "InvalidEncoding"
    /\ XOD \in DOMAIN TERRITORY_INFO

C10_TextRoundTrip ==
    (pc = "parsed" /\ via \in {"from_str", "deserialize"} /\ origin # NoId)
        => result = Ok(origin)

\* The string of an id has been deserialized.
C10_Witness ==
    /\ pc = "parsed"
    /\ via = "deserialize"
    /\ origin = XOD
    /\ result = Ok(XOD)

(***************************************************************************)
(* SpecRender: render_territories called with a viewport, a fill map, a    *)
(* stroke map and a scale, over the registry of all three territories.     *)
(***************************************************************************)
MaxViewW == 7     \* the small viewports are at most MaxViewW wide
MaxViewH == 6     \* the small viewports are at most MaxViewH high

FillColour(id) ==
    CASE id = <<88, 79, 68>> -> "red" [] id = <<68, 79, 88>> -> "green" [] OTHER -> "yellow"
StrokeColour(id) ==
    CASE id = <<88, 79, 68>> -> "black" [] id = <<68, 79, 88>> -> "blue" [] OTHER -> "white"

AllIds == {as_bytes(k) : k \in Codes}

FillMaps == {[id \in K |-> FillColour(id)] : K \in SUBSET AllIds}
StrokeMaps == {[id \in K |-> StrokeColour(id)] : K \in SUBSET AllIds}

ViewPort(x, y, width, height) == [x |-> x, y |-> y, width |-> width, height |-> height]

RenderViewPorts ==
    {ViewPort(0, 0, MAP_WIDTH, MAP_HEIGHT),
     ViewPort(50, 50, 100, 100),
     ViewPort(TILE_WIDTH - 2, TILE_HEIGHT - 2, MaxViewW, MaxViewH),
     ViewPort(MAP_WIDTH - MaxViewW, MAP_HEIGHT - MaxViewH, MaxViewW, MaxViewH),
     ViewPort(3, 2, 3, MaxViewH),
     ViewPort(MAP_WIDTH - 2, 0, MaxViewW, MaxViewH)}

InitRender ==
    /\ pc = "render_territories"
    /\ caller = "lib"
    /\ padded \in BOOLEAN
    /\ seg = [x |-> 0, y |-> 0, w |-> 0, h |-> 0]
    /\ cursor = <<0, 0>>
    /\ image = NewImage(0, 0)
    /\ fetched = << >>
    /\ bounds = NoRect /\ factor = Whole(1) /\ ar = Whole(1) /\ bbox = NoRect
    /\ view_port \in RenderViewPorts
    /\ TERRITORY_INFO = Build(DatasetOf(Codes))
    /\ NoParse
    /\ fill \in FillMaps
    /\ stroke \in StrokeMaps
    /\ stroke_left = NoMap
    /\ scale \in {"X1", "X4"}
    /\ scene = << >>
    /\ shapes = [w |-> 0, h |-> 0]
    /\ background = [w |-> 0, h |-> 0]
    /\ ToolIdle

NextRender ==
    \/ RenderBuildScene \/ RenderRasterize \/ RenderBackground
    \/ SegmentEnter \/ SegmentStep \/ SegmentReturn
    \/ RenderLoaded \/ RenderOverlay

SpecRender == InitRender /\ [][NextRender]_vars

(***************************************************************************)
(* C6: render_territories adds exactly one shape per id of the union of    *)
(* the two maps' keys: with both instructions for an id of both maps       *)
(* (which is removed from the stroke map), fill only for an id of the fill *)
(* map alone, stroke only for an id of the stroke map alone.               *)
(***************************************************************************)
ShapesOf(id) == {k \in 1..Len(scene) : scene[k].id = id}

C6_OneShapePerId ==
    pc # "render_territories" =>
        /\ \A k \in 1..Len(scene) : scene[k].id \in DOMAIN fill \cup DOMAIN stroke
        /\ \A id \in DOMAIN fill \cup DOMAIN stroke :
            /\ Cardinality(ShapesOf(id)) = 1
            /\ \A k \in ShapesOf(id) :
                /\ scene[k].fill = IF id \in DOMAIN fill THEN fill[id] ELSE "None"
                /\ scene[k].stroke = IF id \in DOMAIN stroke THEN stroke[id] ELSE "None"
        /\ DOMAIN stroke_left = DOMAIN stroke \ DOMAIN fill

\* A scene with a filled and stroked shape, a filled one and a stroked one.
C6_Witness ==
    /\ pc = "rasterize"
    /\ Len(scene) = 3
    /\ \E i, j, k \in 1..3 :
        /\ scene[i].fill # "None" /\ scene[i].stroke # "None"
        /\ scene[j].fill # "None" /\ scene[j].stroke = "None"
        /\ scene[k].fill = "None" /\ scene[k].stroke # "None"

(***************************************************************************)
(* C13: in the scene every shape for an id of the fill map (filled, or     *)
(* filled and stroked) comes before every stroke-only shape, whatever the  *)
(* orders the two maps are iterated in.                                    *)
(***************************************************************************)
C13_FillBeforeStrokeOnly ==
    pc # "render_territories" =>
        \A i, j \in 1..Len(scene) :
            /\ scene[i].id \in DOMAIN fill <=> scene[i].fill # "None"
            /\ (scene[i].id \in DOMAIN fill /\ scene[j].id \notin DOMAIN fill)
                   => i < j

\* A scene of a filled shape, a filled and stroked shape and, after both, a
\* stroke-only shape.
C13_Witness ==
    /\ pc = "rasterize"
    /\ Len(scene) = 3
    /\ scene[1].fill # "None" /\ scene[1].stroke = "None"
    /\ scene[2].fill # "None" /\ scene[2].stroke # "None"
    /\ scene[3].fill = "None" /\ scene[3].stroke # "None"

(***************************************************************************)
(* C14: for a viewport inside the map, at scale 1 and at scale 4, the      *)
(* rasterized overlay and the background it is laid on have the same size, *)
(* width / scale x height / scale (integer division); at scale 4 the       *)
(* region cropped, (x / 4, y / 4, width / 4, height / 4), lies inside the  *)
(* whole-map tile of MAP_WIDTH / 4 x MAP_HEIGHT / 4.                       *)
(***************************************************************************)
ViewInMap ==
    /\ view_port.x + view_port.width <= MAP_WIDTH
    /\ view_port.y + view_port.height <= MAP_HEIGHT

ScaledSize ==
    LET k == IF scale = "X1" THEN 1 ELSE 4
    IN [w |-> view_port.width \div k, h |-> view_port.height \div k]

C14_OverlayFitsBackground ==
    ViewInMap =>
        /\ pc \in {"background", "call", "loop", "done", "overlay", "rendered"}
               => shapes = ScaledSize
        /\ pc \in {"overlay", "rendered"} => background = shapes
        /\ (scale = "X4" /\ pc \in {"background", "overlay", "rendered"}) =>
            /\ view_port.x \div 4 + view_port.width \div 4 <= MAP_WIDTH \div 4
            /\ view_port.y \div 4 + view_port.height \div 4 <= MAP_HEIGHT \div 4
            /\ MapX4 = [w |-> MAP_WIDTH \div 4, h |-> MAP_HEIGHT \div 4]

\* A viewport in the map's bottom right corner, off the multiples of 4, has
\* been rendered at scale 4.
C14_Witness ==
    /\ pc = "rendered"
    /\ scale = "X4"
    /\ view_port.x + view_port.width = MAP_WIDTH
    /\ view_port.y + view_port.height = MAP_HEIGHT
    /\ view_port.x % 4 # 0
    /\ view_port.width % 4 # 0
    /\ background.w > 0

(***************************************************************************)
(* SpecTool: torn-map-tool run with a command line.                        *)
(***************************************************************************)
X2Specs ==
    {[kind |-> k, value |-> v] : k \in {"x2_position", "width"},
                                 v \in {0, 3, 700, MAP_WIDTH - 1, MAP_WIDTH}}
Y2Specs ==
    {[kind |-> k, value |-> v] : k \in {"y2_position", "height"},
                                 v \in {0, 2, MAP_HEIGHT - 1, MAP_HEIGHT + 52,
                                        MAP_WIDTH}}

MapSegmentCommands ==
    {[cmd |-> "map-segment", x_position |-> x, y_position |-> y,
      x2_spec |-> x2, y2_spec |-> y2] :
        x \in {0, TILE_WIDTH - 2, MAP_WIDTH - 256, MAP_WIDTH - 1, MAP_WIDTH},
        y \in {0, TILE_HEIGHT - 2, MAP_HEIGHT - 1, MAP_HEIGHT},
        x2 \in X2Specs, y2 \in Y2Specs}

TerritoryViewCommands ==
    {[cmd |-> "territory-view", territory |-> t, factor |-> f, aspect_ratio |-> a] :
        t \in Codes \cup {<<"D", "D", "D">>, <<"X", "O">>},
        f \in Factors, a \in AspectRatios}

InitTool ==
    /\ pc = "parse"
    /\ caller = "none"
    /\ padded \in BOOLEAN
    /\ seg = [x |-> 0, y |-> 0, w |-> 0, h |-> 0]
    /\ cursor = <<0, 0>>
    /\ image = NewImage(0, 0)
    /\ fetched = << >>
    /\ ViewIdle
    /\ TERRITORY_INFO = Build(DatasetOf(Codes))
    /\ NoParse
    /\ RenderIdle
    /\ args \in MapSegmentCommands \cup TerritoryViewCommands
    /\ overflow_checks \in BOOLEAN

NextTool ==
    \/ ToolParse \/ ToolMapSegment \/ ToolTerritoryView
    \/ BBoxForPath \/ FitViewBox \/ ToolTerritoryLoad
    \/ SegmentEnter \/ SegmentStep \/ SegmentReturn
    \/ ToolTerritoryRender
    \/ RenderBuildScene \/ RenderRasterize \/ RenderBackground
    \/ RenderLoaded \/ RenderOverlay
    \/ ToolExit

SpecTool == InitTool /\ [][NextTool]_vars

(***************************************************************************)
(* C2: every call of load_map_segment that the tool makes, from the        *)
(* map-segment command, from the territory-view command and from           *)
(* render_territories, passes a rectangle inside the map with non-negative *)
(* w and h.                                                                *)
(***************************************************************************)
C2_CallersPreClamp ==
    (pc = "call" /\ caller \in {"map-segment", "territory-view", "render_territories"})
        => InMap(seg)

=============================================================================
